---- MODULE Spec2Model ----
(***************************************************************************)
(* Booking backend of the beauty studio: the store (services, bookings,    *)
(* payments, availability rules), the request handlers that change it, the *)
(* status sweep, and the availability / validation functions.              *)
(*                                                                         *)
(* Time is counted in minutes.  Instant 0 is a Monday 00:00 UTC, so the    *)
(* calendar date of an instant t is t \div 1440, its weekday (Python's     *)
(* date.weekday(), Monday = 0) is (t \div 1440) % 7 and its time of day is *)
(* t % 1440.  Stored datetimes are naive values that the code means as UTC.*)
(***************************************************************************)
EXTENDS Integers, FiniteSets, Sequences, TLC

VARIABLES
    now,        \* the clock: the current UTC instant
    services,   \* table services:      id -> [duration_minutes, is_active]
    appts,      \* table appointments:  id -> booking row
    nextId,     \* the appointments primary-key sequence
    payments,   \* table payments: payment id -> [appointment_id, status]
    avail,      \* table availability: a set of rules
    tzOffset,   \* UTC offset of the server's local time (datetime.now())
    reqs,       \* create-booking requests in flight, one per worker
    vres,       \* the last answer of validate_appointment_time
    started,    \* whether the application's lifespan startup has run
    gen,        \* the slot-generation call in progress and the loaded step setting
    payreqs,    \* create-preference requests in flight, one per worker
    cpn,        \* a coupon row, today's date and the last call made on the coupon
    avreqs,     \* create-availability requests in flight, one per worker
    availSeq,   \* the availability primary-key sequence
    delreq,     \* the delete-service request in flight
    mail        \* the last request that sent a notification, and its response

vars == <<now, services, appts, nextId, payments, avail, tzOffset, reqs, vres, started, gen,
         payreqs, cpn, avreqs, availSeq, delreq, mail>>

(***************************************************************************)
(* Settings (app/core/config.py) and units.                                *)
(***************************************************************************)
MIN_BOOKING_ADVANCE_HOURS == 2
MAX_BOOKING_ADVANCE_DAYS == 30
MIN_APPOINTMENT_DURATION == 30
MinutesPerHour == 60
MinutesPerDay == 1440
business_days_list == {1, 2, 3, 4, 5, 6}
BUSINESS_HOURS_START == 540
BUSINESS_HOURS_END == 1200
\* UTC offset of the studio's time zone (America/Argentina/Buenos_Aires).
StudioOffset == 0 - 180

(***************************************************************************)
(* Bounds of the model.                                                    *)
(***************************************************************************)
MaxAppts == 2
MaxPayments == 1

Workers == {1, 2}
ServiceIds == {1, 2}
NoSuchService == Cardinality(ServiceIds) + 1

\* Tuesday of week 0, 08:00 UTC: the instant the model starts at.
StartInstant == MinutesPerDay + 480
\* The later instants the clock is observed at.
ClockPoints == {StartInstant + 150}

PENDING == "pending"
CONFIRMED == "confirmed"
COMPLETED == "completed"
CANCELLED == "cancelled"
AppointmentStatus == {PENDING, CONFIRMED, COMPLETED, CANCELLED}
ActiveStatus == {PENDING, CONFIRMED}

P_PENDING == "pending"
P_APPROVED == "approved"
P_REJECTED == "rejected"
P_CANCELLED == "cancelled"
P_REFUNDED == "refunded"
PaymentStatus == {P_PENDING, P_APPROVED, P_REJECTED, P_CANCELLED, P_REFUNDED}

NULL == << >>
NoReason == "none"
AutoReason == "Cancelado automaticamente por no confirmar"
UserReason == "cancelled by the customer"

(***************************************************************************)
(* Datetimes as they arrive in a request: a wall-clock value, naive or     *)
(* carrying a UTC offset.                                                  *)
(***************************************************************************)
Naive(w) == [wall |-> w, aware |-> FALSE, off |-> 0]
Aware(w, o) == [wall |-> w, aware |-> TRUE, off |-> o]

\* A naive value is taken as UTC; an aware one is converted to UTC.
NormalizeToUTC(dt) == IF ~dt.aware THEN dt.wall ELSE dt.wall - dt.off

(***************************************************************************)
(* Rows.                                                                   *)
(***************************************************************************)
Service(d, a) == [duration_minutes |-> d, is_active |-> a]

Appointment(svc, date) ==
    [service_id |-> svc, appointment_date |-> date, status |-> PENDING,
     cancelled_at |-> NULL, cancellation_reason |-> NoReason,
     user_id |-> 1, notes |-> NULL, reminder_sent |-> FALSE]

\* A payment row; its primary key is its position in the table.
Payment(appointment_id, st) == [appointment_id |-> appointment_id, status |-> st]

\* The payment rows that reference a booking.
PaymentsOf(pays, id) == {p \in DOMAIN pays : pays[p].appointment_id = id}

IsActive(a) == a.status \in ActiveStatus
can_be_cancelled(a) == a.status \in {PENDING, CONFIRMED}

\* The end of a booking: its start plus the duration of its own service.
EndOf(svcs, a) == a.appointment_date + svcs[a.service_id].duration_minutes

(***************************************************************************)
(* Conflict detection.                                                     *)
(***************************************************************************)
\* routes/appointments.py: the query of check_slot_availability.  Only rows
\* of the requested service are looked at; every row's end is computed with
\* the requested service's duration.
RouteConflictRow(a, svc, start, dur) ==
    LET end_time == start + dur IN
    /\ a.service_id = svc
    /\ a.status \in {PENDING, CONFIRMED}
    /\ \/ (a.appointment_date <= start /\ a.appointment_date + dur > start)
       \/ (a.appointment_date < end_time /\ a.appointment_date + dur >= end_time)
       \/ (a.appointment_date >= start /\ a.appointment_date + dur <= end_time)

\* exclude = 0 stands for None (no row has id 0).
check_slot_availability(svcs, db, svc, start, exclude) ==
    IF svc \notin DOMAIN svcs THEN FALSE
    ELSE ~ \E id \in DOMAIN db :
            /\ RouteConflictRow(db[id], svc, start, svcs[svc].duration_minutes)
            /\ (exclude # 0 => id # exclude)

\* is_slot_available with COMPLETED left in the status filter.
ServiceConflictRowAnyStatus(a, start, dur) ==
    LET end_time == start + dur IN
    /\ a.status \in {PENDING, CONFIRMED, COMPLETED}
    /\ \/ (a.appointment_date >= start /\ a.appointment_date < end_time)
       \/ (a.appointment_date < start /\ a.appointment_date + dur > start)
       \/ (a.appointment_date <= start /\ a.appointment_date + dur >= end_time)

\* services/appointment_service.py: the query of is_slot_available.  Rows of
\* every service are looked at; every row's end is again computed with the
\* requested service's duration.
ServiceConflictRow(a, start, dur) ==
    LET end_time == start + dur IN
    /\ a.status \in {PENDING, CONFIRMED}
    /\ \/ (a.appointment_date >= start /\ a.appointment_date < end_time)
       \/ (a.appointment_date < start /\ a.appointment_date + dur > start)
       \/ (a.appointment_date <= start /\ a.appointment_date + dur >= end_time)

is_slot_available(svcs, db, svc, start, exclude) ==
    IF svc \notin DOMAIN svcs THEN FALSE
    ELSE ~ \E id \in DOMAIN db :
            /\ ServiceConflictRow(db[id], start, svcs[svc].duration_minutes)
            /\ (exclude # 0 => id # exclude)

\* routes/availability.py, get_available_slots_for_date: whether the slot of
\* service svc that starts at the studio's wall-clock time slot_start on
\* target_date is marked unavailable.  The rows read are the pending and
\* confirmed ones of the studio's day, of every service; each row's start is
\* converted to the studio's wall clock and its end is computed with the
\* requested service's duration.
SlotBlocked(svcs, db, svc, target_date, slot_start) ==
    LET day_start == target_date * MinutesPerDay - StudioOffset
        day_end == day_start + MinutesPerDay - 1
        dur == svcs[svc].duration_minutes
        slot_end == slot_start + dur
        existing_appointments ==
            {id \in DOMAIN db :
                /\ db[id].status \in {PENDING, CONFIRMED}
                /\ db[id].appointment_date >= day_start
                /\ db[id].appointment_date <= day_end}
    IN  \E id \in existing_appointments :
            LET apt_start_local == db[id].appointment_date + StudioOffset
                apt_end_local == apt_start_local + dur
            IN  apt_start_local < slot_end /\ apt_end_local > slot_start

(***************************************************************************)
(* create_appointment (POST /appointments/).                               *)
(***************************************************************************)
\* CreateOutcome with the minimum-advance comparison made inclusive.
CreateOutcomeInclusive(svcs, db, clock, svc, dt) ==
    LET v == NormalizeToUTC(dt)
        appointment_date_utc == NormalizeToUTC(dt)
        min_advance == clock + MIN_BOOKING_ADVANCE_HOURS * MinutesPerHour
        max_advance == clock + MAX_BOOKING_ADVANCE_DAYS * MinutesPerDay
    IN  IF v < clock THEN "invalid_date"
        ELSE IF svc \notin DOMAIN svcs THEN "service_not_found"
        ELSE IF ~svcs[svc].is_active THEN "service_inactive"
        ELSE IF appointment_date_utc <= min_advance THEN "too_soon"
        ELSE IF appointment_date_utc > max_advance THEN "too_far"
        ELSE IF ~check_slot_availability(svcs, db, svc, appointment_date_utc, 0)
             THEN "slot_taken"
        ELSE "ok"

\* Everything the handler decides before it writes: the schema validator of
\* AppointmentCreate, then lines 112-161 of the handler.
CreateOutcome(svcs, db, clock, svc, dt) ==
    LET v == NormalizeToUTC(dt)
        appointment_date_utc == NormalizeToUTC(dt)
        min_advance == clock + MIN_BOOKING_ADVANCE_HOURS * MinutesPerHour
        max_advance == clock + MAX_BOOKING_ADVANCE_DAYS * MinutesPerDay
    IN  IF v < clock THEN "invalid_date"
        ELSE IF svc \notin DOMAIN svcs THEN "service_not_found"
        ELSE IF ~svcs[svc].is_active THEN "service_inactive"
        ELSE IF appointment_date_utc < min_advance THEN "too_soon"
        ELSE IF appointment_date_utc > max_advance THEN "too_far"
        ELSE IF ~check_slot_availability(svcs, db, svc, appointment_date_utc, 0)
             THEN "slot_taken"
        ELSE "ok"

\* db.add + db.commit: the row gets the next primary key.
InsertAppointment(db, id, svc, date) ==
    [i \in DOMAIN db \cup {id} |-> IF i = id THEN Appointment(svc, date) ELSE db[i]]

(***************************************************************************)
(* The status sweep (services/scheduler_service.py).                       *)
(***************************************************************************)
\* The first update with <= in place of <.
ExpirePendingInclusive(db, clock) ==
    [id \in DOMAIN db |->
        IF db[id].status = PENDING /\ db[id].appointment_date <= clock
        THEN [db[id] EXCEPT !.status = CANCELLED,
                            !.cancelled_at = <<clock>>,
                            !.cancellation_reason = AutoReason]
        ELSE db[id]]

\* The first update applied to one row per run instead of in bulk.
ExpirePendingOne(db, clock) ==
    LET due == {id \in DOMAIN db :
                    db[id].status = PENDING /\ db[id].appointment_date < clock}
    IN  [id \in DOMAIN db |->
            IF id \in due /\ (\A o \in due : id <= o)
            THEN [db[id] EXCEPT !.status = CANCELLED,
                                !.cancelled_at = <<clock>>,
                                !.cancellation_reason = AutoReason]
            ELSE db[id]]

\* 1. PENDING rows whose instant is before now become CANCELLED.
ExpirePending(db, clock) ==
    [id \in DOMAIN db |->
        IF db[id].status = PENDING /\ db[id].appointment_date < clock
        THEN [db[id] EXCEPT !.status = CANCELLED,
                            !.cancelled_at = <<clock>>,
                            !.cancellation_reason = AutoReason]
        ELSE db[id]]

\* The second update writing cancelled_at as the first one does.
CompleteConfirmedStamping(db, clock) ==
    [id \in DOMAIN db |->
        IF db[id].status = CONFIRMED /\ db[id].appointment_date < clock
        THEN [db[id] EXCEPT !.status = COMPLETED, !.cancelled_at = <<clock>>]
        ELSE db[id]]

\* 2. CONFIRMED rows whose instant is before now become COMPLETED.
CompleteConfirmed(db, clock) ==
    [id \in DOMAIN db |->
        IF db[id].status = CONFIRMED /\ db[id].appointment_date < clock
        THEN [db[id] EXCEPT !.status = COMPLETED]
        ELSE db[id]]

\* The two bulk updates run one after the other and are committed together.
update_appointments_status(db, clock) ==
    CompleteConfirmed(ExpirePending(db, clock), clock)

(***************************************************************************)
(* Inputs of the request handlers.                                         *)
(***************************************************************************)
\* Datetimes sent by clients: around the minimum-advance boundary of the
\* start instant, one sent with the studio's local offset (07:30-03:00 =
\* 10:30 UTC), one in the past, one late in the evening (23:30 UTC, 20:30 on
\* the studio's wall clock), one beyond the booking horizon.
RequestDates ==
    { Naive(StartInstant - 20),
      Naive(StartInstant + 119),
      Naive(StartInstant + 120),
      Aware(StartInstant + 150 + StudioOffset, StudioOffset),
      Naive(StartInstant + 930),
      Naive(StartInstant + 200 + MAX_BOOKING_ADVANCE_DAYS * MinutesPerDay) }

\* Datetimes a booking is moved to.
RescheduleDates == {Naive(StartInstant + 150), Naive(StartInstant + 180)}

\* What the payment gateway reports for a payment.
GatewayStatus == {"approved", "rejected", "cancelled", "refunded", "in_process"}

(***************************************************************************)
(* The operations, each as one step on the store.                          *)
(***************************************************************************)
NoRequest == [pc |-> "idle", service_id |-> 0, date |-> 0, res |-> "", rival |-> FALSE]
NoAnswer == [asked |-> FALSE]
NoPayRequest == [pc |-> "idle", appointment_id |-> 0, res |-> "", had |-> FALSE]
\* No slot generation in progress; the step is the default of the setting.
NoGen == [pc |-> "idle", step |-> MIN_APPOINTMENT_DURATION]

NoCoupon == [coupon |-> NULL, today |-> 0, call |-> "none", amount |-> 0, res |-> 0]
NoAvRequest == [pc |-> "idle", data |-> NULL, res |-> "", rival |-> FALSE]
NoDelRequest == [pc |-> "idle", service_id |-> 0, res |-> ""]
NoMail == [op |-> "none", id |-> 0, raised |-> FALSE, response |-> "", seq |-> 0]

\* What the handlers of bookings and payments leave alone.  Every handler
\* but the validator leaves no validator answer behind.
Admin == <<cpn, avreqs, availSeq, delreq, mail>>
Others == <<avail, tzOffset, reqs, started, gen, payreqs, Admin>>

\* The clock moves on to a later observation point.
Tick ==
    /\ \E t \in ClockPoints : t > now /\ now' = t
    /\ UNCHANGED <<services, appts, nextId, payments, Others>>
    /\ vres' = NoAnswer

\* POST /appointments/ handled without interruption.
CreateAppointment ==
    \E svc \in ServiceIds \cup {NoSuchService}, dt \in RequestDates :
        /\ nextId <= MaxAppts
        /\ IF CreateOutcome(services, appts, now, svc, dt) = "ok"
           THEN /\ appts' = InsertAppointment(appts, nextId, svc, NormalizeToUTC(dt))
                /\ nextId' = nextId + 1
           ELSE UNCHANGED <<appts, nextId>>
        /\ UNCHANGED <<now, services, payments, Others>>
        /\ vres' = NoAnswer

\* PUT /appointments/{id}.  new_date = NULL and new_status = "" stand for
\* fields left out of the request; the caller is the owner or an admin.
UpdateAppointmentRow(svcs, db, clock, id, new_date, new_status, is_admin) ==
    LET a == db[id]
        nd == IF new_date = NULL THEN 0 ELSE NormalizeToUTC(new_date[1])
        dated == IF new_date = NULL THEN a
                 ELSE [a EXCEPT !.appointment_date = nd]
    IN  IF a.status \notin {PENDING, CONFIRMED} THEN a
        ELSE IF new_date # NULL /\ nd < clock THEN a
        ELSE IF new_date # NULL /\ ~check_slot_availability(svcs, db, a.service_id, nd, id)
             THEN a
        ELSE IF new_status # "" /\ is_admin THEN [dated EXCEPT !.status = new_status]
        ELSE dated

UpdateAppointment ==
    \E id \in DOMAIN appts,
       new_date \in {NULL} \cup {<<dt>> : dt \in RescheduleDates},
       is_admin \in BOOLEAN,
       new_status \in {""} \cup AppointmentStatus :
        /\ appts' = [appts EXCEPT ![id] =
                        UpdateAppointmentRow(services, appts, now, id,
                                             new_date, new_status, is_admin)]
        /\ UNCHANGED <<now, services, nextId, payments, Others>>
        /\ vres' = NoAnswer

\* POST /appointments/{id}/cancel.  A failure of the cancellation e-mail is
\* caught after the commit and changes nothing.
CancelAppointment ==
    \E id \in DOMAIN appts :
        /\ can_be_cancelled(appts[id])
        /\ appts' = [appts EXCEPT ![id] =
                        [@ EXCEPT !.status = CANCELLED,
                                  !.cancelled_at = <<now>>,
                                  !.cancellation_reason = UserReason]]
        /\ UNCHANGED <<now, services, nextId, payments, Others>>
        /\ vres' = NoAnswer

\* DELETE /appointments/{id} (admin).  payments.appointment_id is NOT NULL and
\* references the row, so a booking that has a payment cannot be deleted.
DeleteAppointment ==
    \E id \in DOMAIN appts :
        /\ PaymentsOf(payments, id) = {}
        /\ appts' = [i \in DOMAIN appts \ {id} |-> appts[i]]
        /\ UNCHANGED <<now, services, nextId, payments, Others>>
        /\ vres' = NoAnswer

\* One run of update_appointments_status.
Sweep ==
    /\ appts' = update_appointments_status(appts, now)
    /\ UNCHANGED <<now, services, nextId, payments, Others>>
    /\ vres' = NoAnswer

\* PUT /services/{id}/toggle-active (admin).
ToggleServiceActive ==
    \E svc \in DOMAIN services :
        /\ services' = [services EXCEPT ![svc].is_active = ~@]
        /\ UNCHANGED <<now, appts, nextId, payments, Others>>
        /\ vres' = NoAnswer

\* The check of create_payment_preference: the booking has a payment row in
\* status pending or approved.
HasOpenPayment(pays, id) ==
    \E p \in PaymentsOf(pays, id) : pays[p].status \in {P_PENDING, P_APPROVED}

\* db.add + db.commit of a payment row without the unique constraint on
\* appointment_id.
InsertPaymentUnconstrained(pays, id) == Append(pays, Payment(id, P_PENDING))

\* db.add + db.commit of a payment row: payments.appointment_id is unique, so
\* the commit fails and leaves the table as it is when the booking already
\* has a payment row of any status.
InsertPayment(pays, id) ==
    IF PaymentsOf(pays, id) # {} THEN pays ELSE Append(pays, Payment(id, P_PENDING))

\* POST /payments/create-preference handled without interruption.
CreatePaymentPreference ==
    \E id \in DOMAIN appts :
        /\ Len(payments) < MaxPayments
        /\ payments' = IF HasOpenPayment(payments, id) THEN payments
                       ELSE InsertPayment(payments, id)
        /\ UNCHANGED <<now, services, appts, nextId, Others>>
        /\ vres' = NoAnswer

\* An approval that leaves the booking as it is.
ConfirmAppointmentSkipped(db, id) == db

\* What the webhook writes to the booking of an approved payment.
ConfirmAppointment(db, id) ==
    IF id \in DOMAIN db THEN [db EXCEPT ![id].status = CONFIRMED] ELSE db

\* POST /payments/webhook: the gateway reports mp_status for the payment whose
\* external reference is the booking id; the handler takes the first payment
\* row of that booking.
MercadopagoWebhook ==
    \E id \in {payments[q].appointment_id : q \in DOMAIN payments},
       mp_status \in GatewayStatus :
        \E p \in PaymentsOf(payments, id) :
            /\ payments' = [payments EXCEPT ![p].status =
                    CASE mp_status = "approved"  -> P_APPROVED
                      [] mp_status = "rejected"  -> P_REJECTED
                      [] mp_status = "cancelled" -> P_CANCELLED
                      [] mp_status = "refunded"  -> P_REFUNDED
                      [] OTHER -> @]
            /\ appts' = IF mp_status = "approved" THEN ConfirmAppointment(appts, id)
                        ELSE appts
            /\ UNCHANGED <<now, services, nextId, Others>>
            /\ vres' = NoAnswer

\* PUT /payments/{id}/status (admin).
UpdatePaymentStatus ==
    \E p \in DOMAIN payments, st \in PaymentStatus :
        /\ payments' = [payments EXCEPT ![p].status = st]
        /\ appts' = IF st = P_APPROVED
                    THEN ConfirmAppointment(appts, payments[p].appointment_id)
                    ELSE appts
        /\ UNCHANGED <<now, services, nextId, Others>>
        /\ vres' = NoAnswer

(***************************************************************************)
(* The store after startup: create_initial_data has inserted the weekly    *)
(* rules of the business days and the services (two of them are kept: one  *)
(* of 60 and one of 30 minutes).                                           *)
(***************************************************************************)
WeeklyRule(d, s, e, a) ==
    [day_of_week |-> <<d>>, specific_date |-> NULL, start_time |-> s, end_time |-> e,
     is_available |-> a]
SpecificRule(d, s, e, a) ==
    [day_of_week |-> NULL, specific_date |-> <<d>>, start_time |-> s, end_time |-> e,
     is_available |-> a]

InitialServices == (1 :> Service(60, TRUE)) @@ (2 :> Service(30, TRUE))
InitialAvailability ==
    {WeeklyRule(d, BUSINESS_HOURS_START, BUSINESS_HOURS_END, TRUE) : d \in business_days_list}

Init ==
    /\ now = StartInstant
    /\ services = InitialServices
    /\ appts = << >>
    /\ nextId = 1
    /\ payments = << >>
    /\ avail = InitialAvailability
    /\ tzOffset = 0
    /\ reqs = [w \in Workers |-> NoRequest]
    /\ vres = NoAnswer
    /\ started = TRUE
    /\ gen = NoGen
    /\ payreqs = [w \in Workers |-> NoPayRequest]
    /\ cpn = NoCoupon
    /\ avreqs = [w \in Workers |-> NoAvRequest]
    /\ availSeq = 1
    /\ delreq = NoDelRequest
    /\ mail = NoMail

Next ==
    \/ Tick
    \/ CreateAppointment
    \/ UpdateAppointment
    \/ CancelAppointment
    \/ DeleteAppointment
    \/ Sweep
    \/ CreatePaymentPreference
    \/ MercadopagoWebhook
    \/ UpdatePaymentStatus

Spec == Init /\ [][Next]_vars

(***************************************************************************)
(* Concurrent create-booking requests.  Each worker runs create_appointment*)
(* in two steps against the shared store: everything up to and including   *)
(* the conflict query, then the insert and commit.  Nothing in the handler *)
(* or in the schema makes the second step depend on what was committed in  *)
(* between.                                                                *)
(***************************************************************************)
SameSlot(r1, r2) == r1.service_id = r2.service_id /\ r1.date = r2.date

InFlight == {w \in Workers : reqs[w].pc = "checked"}

\* Lines 112-161: validations and conflict query of worker w's request.
CreateCheck(w) ==
    \E svc \in ServiceIds \cup {NoSuchService}, dt \in RequestDates :
        LET outcome == CreateOutcome(services, appts, now, svc, dt)
            mine == [service_id |-> svc, date |-> NormalizeToUTC(dt)]
        IN  /\ reqs[w].pc \in {"idle", "done"}
            /\ nextId + Cardinality(InFlight) <= MaxAppts
            /\ reqs' = [reqs EXCEPT ![w] =
                  IF outcome = "ok"
                  THEN [pc |-> "checked", service_id |-> svc, date |-> mine.date,
                        res |-> "",
                        rival |-> \E o \in InFlight : SameSlot(reqs[o], mine)]
                  ELSE IF outcome = "slot_taken"
                  THEN [pc |-> "done", service_id |-> svc, date |-> mine.date,
                        res |-> outcome, rival |-> FALSE]
                  ELSE [NoRequest EXCEPT !.pc = "done", !.res = outcome]]
            /\ vres' = NoAnswer
            /\ UNCHANGED <<now, services, appts, nextId, payments, avail, tzOffset, started, gen,
                           payreqs, Admin>>

\* Lines 163-178: the insert and its commit.  appointments.service_id is a
\* foreign key to services.id: the commit fails, and the row is not stored,
\* when the service row is gone by then.
CreateCommit(w) ==
    /\ reqs[w].pc = "checked"
    /\ appts' = IF reqs[w].service_id \in DOMAIN services
                THEN InsertAppointment(appts, nextId, reqs[w].service_id, reqs[w].date)
                ELSE appts
    /\ nextId' = nextId + 1
    /\ reqs' = [reqs EXCEPT ![w].pc = "done",
                            ![w].res = IF reqs[w].service_id \in DOMAIN services
                                       THEN "created" ELSE "integrity_error"]
    /\ vres' = NoAnswer
    /\ UNCHANGED <<now, services, payments, avail, tzOffset, started, gen, payreqs, Admin>>

NextRace ==
    \/ \E w \in Workers : CreateCheck(w)
    \/ \E w \in Workers : CreateCommit(w)
    \/ CancelAppointment
    \/ ToggleServiceActive

SpecRace == Init /\ [][NextRace]_vars

\* C2: of two create requests for the identical slot that ran concurrently
\* (the conflict check of one ran while the other had passed its own check
\* and not yet committed), exactly one persists a booking; the other is
\* rejected as slot taken.
OneWinnerPerSlot ==
    \A w, o \in Workers :
        (/\ w # o
         /\ reqs[w].pc = "done" /\ reqs[o].pc = "done"
         /\ SameSlot(reqs[w], reqs[o])
         /\ reqs[w].rival
         /\ reqs[o].res = "created")
            => reqs[w].res = "slot_taken"

(***************************************************************************)
(* The running application (main.py).  Startup initialises the store; no   *)
(* step of lifespan, and no other code, calls init_scheduler, so no job    *)
(* that runs update_appointments_status is ever registered.  The steps of  *)
(* the running application are therefore the request handlers and the      *)
(* passing of time.                                                        *)
(***************************************************************************)
InitLive ==
    /\ now = StartInstant
    /\ services = << >>
    /\ appts = << >>
    /\ nextId = 1
    /\ payments = << >>
    /\ avail = {}
    /\ tzOffset = 0
    /\ reqs = [w \in Workers |-> NoRequest]
    /\ vres = NoAnswer
    /\ started = FALSE
    /\ gen = NoGen
    /\ payreqs = [w \in Workers |-> NoPayRequest]
    /\ cpn = NoCoupon
    /\ avreqs = [w \in Workers |-> NoAvRequest]
    /\ availSeq = 1
    /\ delreq = NoDelRequest
    /\ mail = NoMail

\* lifespan: init_db, create_initial_data, then the application serves.
Lifespan ==
    /\ ~started
    /\ started' = TRUE
    /\ services' = InitialServices
    /\ avail' = InitialAvailability
    /\ UNCHANGED <<now, appts, nextId, payments, tzOffset, reqs, vres, gen, payreqs, Admin>>

NextLive ==
    \/ Lifespan
    \/ started /\ Tick
    \/ started /\ CreateAppointment
    \/ started /\ CancelAppointment
    \/ started /\ CreatePaymentPreference
    \/ started /\ MercadopagoWebhook

\* Startup completes and time passes; requests are made or not.
SpecLive == InitLive /\ [][NextLive]_vars /\ WF_vars(Lifespan) /\ WF_vars(started /\ Tick)

\* C8: every booking that is pending or confirmed when its instant has passed
\* eventually is cancelled or completed.
PastBookingsReachTerminal ==
    \A id \in 1..MaxAppts :
        [](( /\ id \in DOMAIN appts
             /\ IsActive(appts[id])
             /\ appts[id].appointment_date < now )
           => <>( id \in DOMAIN appts /\ appts[id].status \in {COMPLETED, CANCELLED} ))


(***************************************************************************)
(* Business hours and booking validation (services/appointment_service.py).*)
(***************************************************************************)
DateOf(t) == t \div MinutesPerDay
TimeOf(t) == t % MinutesPerDay
\* date.weekday(): Monday = 0; instant 0 is a Monday.
Weekday(d) == d % 7

is_business_day(target_date) == Weekday(target_date) \in business_days_list

\* get_business_hours with the weekly rule consulted before the rows of the
\* date.
get_business_hours_weekly_first(av, target_date) ==
    LET specific == {r \in av : r.specific_date = <<target_date>>}
        regular == {r \in av : r.day_of_week = <<Weekday(target_date)>> /\ r.is_available}
    IN  IF regular # {}
        THEN {<<r.start_time, r.end_time>> : r \in regular}
        ELSE IF specific = {} THEN {NULL}
        ELSE {IF ~r.is_available THEN NULL ELSE <<r.start_time, r.end_time>> : r \in specific}

\* get_business_hours with the weekly query not filtered on is_available.
get_business_hours_any_flag(av, target_date) ==
    LET specific == {r \in av : r.specific_date = <<target_date>>}
        regular == {r \in av : r.day_of_week = <<Weekday(target_date)>>}
    IN  IF specific # {}
        THEN {IF ~r.is_available THEN NULL ELSE <<r.start_time, r.end_time>> : r \in specific}
        ELSE IF regular = {} THEN {NULL}
        ELSE {<<r.start_time, r.end_time>> : r \in regular}

\* The answers get_business_hours can give for a date: NULL (closed) or
\* <<start_time, end_time>>.  Each query takes the first matching row; with
\* one row per date or weekday the answer is unique.
get_business_hours(av, target_date) ==
    LET specific == {r \in av : r.specific_date = <<target_date>>}
        regular == {r \in av : r.day_of_week = <<Weekday(target_date)>> /\ r.is_available}
    IN  IF specific # {}
        THEN {IF ~r.is_available THEN NULL ELSE <<r.start_time, r.end_time>> : r \in specific}
        ELSE IF regular = {} THEN {NULL}
        ELSE {<<r.start_time, r.end_time>> : r \in regular}

\* routes/availability.py, get_available_slots_for_date: the window the slot
\* listing resolves for a date, with its own two queries.
listing_hours(av, target_date) ==
    LET day_of_week == Weekday(target_date)
        specific_availability == {r \in av : r.specific_date = <<target_date>>}
        regular_availability == {r \in av : r.day_of_week = <<day_of_week>> /\ r.is_available}
    IN  IF specific_availability # {}
        THEN {IF ~r.is_available THEN NULL ELSE <<r.start_time, r.end_time>> :
                  r \in specific_availability}
        ELSE IF regular_availability = {} THEN {NULL}
        ELSE {<<r.start_time, r.end_time>> : r \in regular_availability}

\* routes/availability.py, GET /availability/check/{date}: the answers for a
\* date.  The weekly query is not filtered on is_available; the flag of the
\* row found is reported.
check_availability_for_date(av, target_date) ==
    LET exception == {r \in av : r.specific_date = <<target_date>>}
        regular == {r \in av : r.day_of_week = <<Weekday(target_date)>>}
    IN  IF exception # {}
        THEN {[is_available |-> r.is_available, start_time |-> r.start_time,
               end_time |-> r.end_time, is_exception |-> TRUE] : r \in exception}
        ELSE IF regular # {}
        THEN {[is_available |-> r.is_available, start_time |-> r.start_time,
               end_time |-> r.end_time, is_exception |-> FALSE] : r \in regular}
        ELSE {[is_available |-> FALSE, start_time |-> NULL, end_time |-> NULL,
               is_exception |-> FALSE]}

\* validate_appointment_time without the comparison of the booking's end with
\* the closing time.
validate_appointment_time_open_end(svcs, db, localnow, hours, svc, t) ==
    LET min_datetime == localnow + MIN_BOOKING_ADVANCE_HOURS * MinutesPerHour
        max_datetime == localnow + MAX_BOOKING_ADVANCE_DAYS * MinutesPerDay
        appointment_date == DateOf(t)
        appointment_time == TimeOf(t)
    IN  IF svc \notin DOMAIN svcs THEN "service_not_found"
        ELSE IF ~svcs[svc].is_active THEN "service_inactive"
        ELSE IF t < min_datetime THEN "too_soon"
        ELSE IF t > max_datetime THEN "too_far"
        ELSE IF ~is_business_day(appointment_date) THEN "weekday_closed"
        ELSE IF hours = NULL THEN "date_closed"
        ELSE IF appointment_time < hours[1] \/ appointment_time >= hours[2]
             THEN "outside_hours"
        ELSE IF ~is_slot_available(svcs, db, svc, t, 0) THEN "slot_taken"
        ELSE "ok"

\* validate_appointment_time: the message of the first check that fails, or
\* "ok".  localnow is datetime.now(), t the naive datetime asked about, hours
\* what get_business_hours answers for t's date.
validate_appointment_time(svcs, db, localnow, hours, svc, t) ==
    LET min_datetime == localnow + MIN_BOOKING_ADVANCE_HOURS * MinutesPerHour
        max_datetime == localnow + MAX_BOOKING_ADVANCE_DAYS * MinutesPerDay
        appointment_date == DateOf(t)
        appointment_time == TimeOf(t)
    IN  IF svc \notin DOMAIN svcs THEN "service_not_found"
        ELSE IF ~svcs[svc].is_active THEN "service_inactive"
        ELSE IF t < min_datetime THEN "too_soon"
        ELSE IF t > max_datetime THEN "too_far"
        ELSE IF ~is_business_day(appointment_date) THEN "weekday_closed"
        ELSE IF hours = NULL THEN "date_closed"
        ELSE IF appointment_time < hours[1] \/ appointment_time >= hours[2]
             THEN "outside_hours"
        ELSE IF t + svcs[svc].duration_minutes > appointment_date * MinutesPerDay + hours[2]
             THEN "past_close"
        ELSE IF ~is_slot_available(svcs, db, svc, t, 0) THEN "slot_taken"
        ELSE "ok"

\* datetime.now() on the server: the wall clock of its local time zone.
LocalNow == now + tzOffset

\* Datetimes the validator is asked about: both sides of the two advance
\* limits; Tuesday 10:00, 10:30, 19:30 and 21:00; Wednesday 10:00; the
\* Monday of the next week 10:00.
ValidateDates ==
    { LocalNow + MIN_BOOKING_ADVANCE_HOURS * MinutesPerHour - 1,
      LocalNow + MIN_BOOKING_ADVANCE_HOURS * MinutesPerHour,
      LocalNow + MAX_BOOKING_ADVANCE_DAYS * MinutesPerDay,
      LocalNow + MAX_BOOKING_ADVANCE_DAYS * MinutesPerDay + 1,
      StartInstant + 120, StartInstant + 150,
      MinutesPerDay + 1170, MinutesPerDay + 1260,
      2 * MinutesPerDay + 600,
      7 * MinutesPerDay + 600 }

\* A call of appointment_service.validate_appointment_time.
ValidateAppointmentTime ==
    \E svc \in ServiceIds \cup {NoSuchService}, t \in ValidateDates :
        \E hours \in get_business_hours(avail, DateOf(t)) :
            /\ vres' = [asked |-> TRUE, service_id |-> svc, dt |-> t, hours |-> hours,
                        msg |-> validate_appointment_time(services, appts, LocalNow,
                                                          hours, svc, t)]
            /\ UNCHANGED <<now, services, appts, nextId, payments, avail, tzOffset,
                           reqs, started, gen, payreqs, Admin>>

\* Availability tables the staff can have set up: the initial weekly rules;
\* plus a closed override for the Wednesday; plus an open override for the
\* Monday of the next week; plus a shorter window for the Tuesday; or with the
\* Wednesday rule switched to unavailable.
AvailabilityTables ==
    { InitialAvailability,
      InitialAvailability \cup {SpecificRule(2, 0, 0, FALSE)},
      InitialAvailability \cup {SpecificRule(7, BUSINESS_HOURS_START, BUSINESS_HOURS_END, TRUE)},
      InitialAvailability \cup {SpecificRule(1, 630, 900, TRUE)},
      (InitialAvailability \ {WeeklyRule(2, BUSINESS_HOURS_START, BUSINESS_HOURS_END, TRUE)})
          \cup {WeeklyRule(2, BUSINESS_HOURS_START, BUSINESS_HOURS_END, FALSE)} }

InitV ==
    /\ now = StartInstant
    /\ services = InitialServices
    /\ appts = << >>
    /\ nextId = 1
    /\ payments = << >>
    /\ avail \in AvailabilityTables
    /\ tzOffset \in {0, StudioOffset}
    /\ reqs = [w \in Workers |-> NoRequest]
    /\ vres = NoAnswer
    /\ started = TRUE
    /\ gen = NoGen
    /\ payreqs = [w \in Workers |-> NoPayRequest]
    /\ cpn = NoCoupon
    /\ avreqs = [w \in Workers |-> NoAvRequest]
    /\ availSeq = 1
    /\ delreq = NoDelRequest
    /\ mail = NoMail

NextV ==
    \/ ValidateAppointmentTime
    \/ CreateAppointment
    \/ CancelAppointment
    \/ ToggleServiceActive

SpecV == InitV /\ [][NextV]_vars

\* The six checks of the validator, each stated on its own.  The day is open
\* when the business-hours resolver reports an open window for the date; the
\* slot is free when the conflict detector reports no conflict.
ServiceOk(svc) == svc \in DOMAIN services /\ services[svc].is_active
MinAdvanceOk(t) == t >= LocalNow + MIN_BOOKING_ADVANCE_HOURS * MinutesPerHour
MaxAdvanceOk(t) == t <= LocalNow + MAX_BOOKING_ADVANCE_DAYS * MinutesPerDay
DayOpen(t, hours) == hours # NULL
WithinHours(svc, t, hours) ==
    /\ hours[1] <= TimeOf(t)
    /\ t + services[svc].duration_minutes <= DateOf(t) * MinutesPerDay + hours[2]
NoConflict(svc, t) == is_slot_available(services, appts, svc, t, 0)

FirstFailing(svc, t, hours) ==
    IF ~ServiceOk(svc) THEN "service"
    ELSE IF ~MinAdvanceOk(t) THEN "too_soon"
    ELSE IF ~MaxAdvanceOk(t) THEN "too_far"
    ELSE IF ~DayOpen(t, hours) THEN "day_closed"
    ELSE IF ~WithinHours(svc, t, hours) THEN "outside_hours"
    ELSE IF ~NoConflict(svc, t) THEN "slot_taken"
    ELSE "accepted"

\* The typed reason a message of the validator stands for.
ReasonOf(msg) ==
    CASE msg \in {"service_not_found", "service_inactive"} -> "service"
      [] msg \in {"weekday_closed", "date_closed"} -> "day_closed"
      [] msg \in {"outside_hours", "past_close"} -> "outside_hours"
      [] msg = "ok" -> "accepted"
      [] OTHER -> msg

\* C9: the validator answers with the reason of the first failing check, in
\* the order service, minimum advance, maximum advance, day open, within
\* hours, no conflict, and accepts exactly when all six pass.
ValidationOrder ==
    vres.asked =>
        ReasonOf(vres.msg) = FirstFailing(vres.service_id, vres.dt, vres.hours)

\* C10: for an active service, a request at exactly now + minimum advance is
\* not rejected as too soon, and a request one minute (the resolution of the
\* model) earlier is rejected as too soon, by the validator and by the
\* create-booking endpoint alike.
MinAdvanceBoundary ==
    LET edgeV == LocalNow + MIN_BOOKING_ADVANCE_HOURS * MinutesPerHour
        edge == now + MIN_BOOKING_ADVANCE_HOURS * MinutesPerHour
    IN  \A svc \in DOMAIN services :
            services[svc].is_active =>
                /\ \A hours \in get_business_hours(avail, DateOf(edgeV)) :
                        validate_appointment_time(services, appts, LocalNow, hours,
                                                  svc, edgeV) # "too_soon"
                /\ \A hours \in get_business_hours(avail, DateOf(edgeV - 1)) :
                        validate_appointment_time(services, appts, LocalNow, hours,
                                                  svc, edgeV - 1) = "too_soon"
                /\ CreateOutcome(services, appts, now, svc, Naive(edge)) # "too_soon"
                /\ CreateOutcome(services, appts, now, svc, Naive(edge - 1)) = "too_soon"

\* A booking was created for exactly now + minimum advance, and the validator
\* has just accepted or rejected, but not as too soon, a request at exactly
\* its own now + minimum advance.
BookedAtBoundary ==
    /\ \E id \in DOMAIN appts :
          appts[id].appointment_date = now + MIN_BOOKING_ADVANCE_HOURS * MinutesPerHour
    /\ vres.asked
    /\ vres.dt = LocalNow + MIN_BOOKING_ADVANCE_HOURS * MinutesPerHour
    /\ ServiceOk(vres.service_id)
    /\ vres.msg # "too_soon"

\* C11: a request that passes the service and advance checks is rejected as
\* day closed exactly when the business-hours resolver reports the date closed.
DayClosedIffResolverClosed ==
    (/\ vres.asked
     /\ ServiceOk(vres.service_id)
     /\ MinAdvanceOk(vres.dt)
     /\ MaxAdvanceOk(vres.dt))
        => ((ReasonOf(vres.msg) = "day_closed") <=> (vres.hours = NULL))

\* C12: every request the validator accepts starts at or after the opening
\* time resolved for its date and ends at or before the closing time; a
\* request that starts inside the window and ends after the closing time is
\* not accepted.
AcceptedInsideWindow ==
    vres.asked =>
        LET t == vres.dt
            close == DateOf(t) * MinutesPerDay + vres.hours[2]
            ends == t + services[vres.service_id].duration_minutes
        IN  /\ vres.msg = "ok" =>
                /\ vres.hours # NULL
                /\ vres.hours[1] <= TimeOf(t)
                /\ ends <= close
            /\ (/\ ServiceOk(vres.service_id)
                /\ vres.hours # NULL
                /\ vres.hours[1] <= TimeOf(t)
                /\ TimeOf(t) < vres.hours[2]
                /\ ends > close)
                   => vres.msg # "ok"

\* The validator has accepted a request whose booking ends exactly at the
\* closing time of its date.
AcceptedEndingAtClose ==
    /\ vres.asked
    /\ vres.msg = "ok"
    /\ vres.dt + services[vres.service_id].duration_minutes
          = DateOf(vres.dt) * MinutesPerDay + vres.hours[2]

\* A booking of dur minutes starting at wall-clock value t lies inside the
\* window the resolver reports for t's date.
InsideHours(t, dur) ==
    \E hours \in get_business_hours(avail, DateOf(t)) :
        /\ hours # NULL
        /\ hours[1] <= TimeOf(t)
        /\ t + dur <= DateOf(t) * MinutesPerDay + hours[2]

\* C13: every booking the create-booking endpoint persists is for an active
\* service, is pending, and lies inside the business-hours window of its date
\* (the stored instant read as UTC or on the studio's wall clock).
CreatedInsideBusinessHours ==
    [][\A id \in DOMAIN appts' \ DOMAIN appts :
          LET a == appts'[id]
              dur == services[a.service_id].duration_minutes
          IN  /\ services[a.service_id].is_active
              /\ a.status = PENDING
              /\ \/ InsideHours(a.appointment_date, dur)
                 \/ InsideHours(a.appointment_date + StudioOffset, dur)]_vars

\* Dates the resolver is asked about: the Tuesday and Wednesday of week 0, the
\* Monday and Tuesday of week 1.
ResolverDates == {1, 2, 7, 8}

OverrideFor(d) == {r \in avail : r.specific_date = <<d>>}
WeeklyOpenFor(d) == {r \in avail : r.day_of_week = <<d % 7>> /\ r.is_available}

\* C14: for a date that has a date-specific row the resolver (and the slot
\* listing's own lookup, and the date check) answers from that row alone: its
\* window when the row is available, closed when it is not.
OverrideSupersedesWeekly ==
    \A d \in ResolverDates :
        OverrideFor(d) # {} =>
            LET of_row == {IF r.is_available THEN <<r.start_time, r.end_time>> ELSE NULL :
                              r \in OverrideFor(d)}
            IN  /\ get_business_hours(avail, d) = of_row
                /\ listing_hours(avail, d) = of_row
                /\ \A c \in check_availability_for_date(avail, d) :
                      /\ c.is_exception
                      /\ \E r \in OverrideFor(d) : c.is_available = r.is_available

\* The validator has been answered "closed" by the resolver for a date whose
\* weekday has an open weekly rule and whose date-specific row is closed.
ClosedOverrideOnOpenWeekday ==
    /\ vres.asked
    /\ vres.msg = "date_closed"
    /\ vres.hours = NULL
    /\ WeeklyOpenFor(DateOf(vres.dt)) # {}
    /\ \E r \in OverrideFor(DateOf(vres.dt)) : ~r.is_available

\* C15: for a date without a date-specific row the resolver answers the
\* window of the weekly rule of the weekday when such a rule exists and is
\* available, and closed otherwise.
WeeklyRuleDecidesWithoutOverride ==
    \A d \in ResolverDates :
        OverrideFor(d) = {} =>
            LET of_rule == IF WeeklyOpenFor(d) = {} THEN {NULL}
                           ELSE {<<r.start_time, r.end_time>> : r \in WeeklyOpenFor(d)}
            IN  /\ get_business_hours(avail, d) = of_rule
                /\ listing_hours(avail, d) = of_rule
                /\ \A c \in check_availability_for_date(avail, d) :
                      /\ ~c.is_exception
                      /\ c.is_available <=> WeeklyOpenFor(d) # {}

\* The validator has been answered "closed" for a date without date-specific
\* row whose weekly rule exists and is switched to unavailable.
ClosedByUnavailableWeeklyRule ==
    /\ vres.asked
    /\ vres.msg = "date_closed"
    /\ vres.hours = NULL
    /\ OverrideFor(DateOf(vres.dt)) = {}
    /\ \E r \in avail : r.day_of_week = <<Weekday(DateOf(vres.dt))>> /\ ~r.is_available


(***************************************************************************)
(* Slot generation: AppointmentService.get_available_slots ("service") and *)
(* get_available_slots_for_date of routes/availability.py ("route").  Both *)
(* resolve the window of the date and then loop from the opening time in   *)
(* steps of the MIN_APPOINTMENT_DURATION setting.  One iteration of the    *)
(* loop is one step of the model.  The setting is an integer read from the *)
(* environment when the application is loaded; nothing constrains it.      *)
(***************************************************************************)
\* Slots recorded per call; of further iterations of the loop only the fact
\* that the loop is still running (spin) is recorded.
MaxSlots == 33

\* Values the step setting is loaded with.
StepSettings == {0, 20, MIN_APPOINTMENT_DURATION}
GenImpl == {"service", "route"}
\* The Tuesday of week 0 and the Monday of week 1.
GenDates == {1, 7}

\* The loop condition with < in place of <=.
SlotFitsStrict(current, dur, end_datetime) == current + dur < end_datetime

\* while current + timedelta(minutes=duration) <= end_datetime
SlotFits(current, dur, end_datetime) == current + dur <= end_datetime

\* Stores the listing is computed on.  TenLocal is Tuesday 10:00 on the
\* studio's wall clock, stored as 13:00 UTC.
TenLocal == MinutesPerDay + 600 - StudioOffset
Booked(svc, date, st) ==
    IF st = CANCELLED
    THEN [Appointment(svc, date) EXCEPT !.status = CANCELLED,
                                        !.cancelled_at = <<StartInstant>>,
                                        !.cancellation_reason = UserReason]
    ELSE [Appointment(svc, date) EXCEPT !.status = st]
GenStores ==
    { << >>,
      <<Booked(1, TenLocal, CONFIRMED)>>,
      <<Booked(2, TenLocal, PENDING)>>,
      <<Booked(1, TenLocal, CANCELLED)>>,
      <<Booked(1, TenLocal, CONFIRMED), Booked(2, TenLocal + 90, PENDING)>> }

\* Availability tables: the weekly rules alone; with a 09:00-12:00 window,
\* a 10:00-10:45 window, or a closed row for the Tuesday.
GenTables ==
    { InitialAvailability,
      InitialAvailability \cup {SpecificRule(1, BUSINESS_HOURS_START, 720, TRUE)},
      InitialAvailability \cup {SpecificRule(1, 600, 645, TRUE)},
      InitialAvailability \cup {SpecificRule(1, 0, 0, FALSE)} }

\* The call up to the loop: the service lookup and the resolution of the
\* window.  The service variant also returns at once for an inactive service.
GenStart ==
    \E impl \in GenImpl, svc \in ServiceIds \cup {NoSuchService}, d \in GenDates :
        /\ gen.pc \in {"idle", "done"}
        /\ \E hours \in (IF impl = "service" THEN get_business_hours(avail, d)
                                              ELSE listing_hours(avail, d)) :
              LET early == \/ svc \notin DOMAIN services
                           \/ (impl = "service" /\ ~services[svc].is_active)
                           \/ hours = NULL
              IN  gen' = [pc |-> IF early THEN "done" ELSE "loop",
                          step |-> gen.step, impl |-> impl, service_id |-> svc,
                          date |-> d, hours |-> hours,
                          current |-> IF early THEN 0 ELSE d * MinutesPerDay + hours[1],
                          slots |-> << >>, spin |-> FALSE]
        /\ vres' = NoAnswer
        /\ UNCHANGED <<now, services, appts, nextId, payments, avail, tzOffset, reqs, started,
                   payreqs, Admin>>

\* One evaluation of the loop condition and, when it holds, one iteration.
GenStep ==
    /\ gen.pc = "loop"
    /\ LET dur == services[gen.service_id].duration_minutes
           end_datetime == gen.date * MinutesPerDay + gen.hours[2]
           slot_end == gen.current + dur
           is_available ==
               IF gen.impl = "service"
               THEN is_slot_available(services, appts, gen.service_id, gen.current, 0)
               ELSE ~SlotBlocked(services, appts, gen.service_id, gen.date, gen.current)
           slot == [start_time |-> gen.current, end_time |-> slot_end,
                    is_available |-> is_available]
       IN  gen' = IF SlotFits(gen.current, dur, end_datetime)
                  THEN [gen EXCEPT !.slots = IF Len(@) < MaxSlots THEN Append(@, slot) ELSE @,
                                   !.spin = IF Len(gen.slots) < MaxSlots THEN @ ELSE ~@,
                                   !.current = @ + gen.step]
                  ELSE [gen EXCEPT !.pc = "done"]
    /\ vres' = NoAnswer
    /\ UNCHANGED <<now, services, appts, nextId, payments, avail, tzOffset, reqs, started,
                   payreqs, Admin>>

InitGen ==
    /\ now = StartInstant
    /\ services = InitialServices
    /\ appts \in GenStores
    /\ nextId = Len(appts) + 1
    /\ payments = IF \E i \in DOMAIN appts : appts[i].status = CONFIRMED
                  THEN <<Payment(1, P_APPROVED)>>
                  ELSE << >>
    /\ avail \in GenTables
    /\ tzOffset = 0
    /\ reqs = [w \in Workers |-> NoRequest]
    /\ vres = NoAnswer
    /\ started = TRUE
    /\ gen \in {[NoGen EXCEPT !.step = st] : st \in StepSettings}
    /\ payreqs = [w \in Workers |-> NoPayRequest]
    /\ cpn = NoCoupon
    /\ avreqs = [w \in Workers |-> NoAvRequest]
    /\ availSeq = 1
    /\ delreq = NoDelRequest
    /\ mail = NoMail

NextGen ==
    \/ GenStart
    \/ GenStep

\* A call that has started keeps running.
SpecGen == InitGen /\ [][NextGen]_vars /\ WF_vars(GenStep)

\* A call has returned from its loop.
GenReturned ==
    /\ gen.pc = "done"
    /\ gen.service_id \in DOMAIN services
    /\ gen.hours # NULL

\* The number of k >= 0 with open + k * step + dur <= close.
ExpectedCount(open, close, dur, step) ==
    IF open + dur > close THEN 0 ELSE (close - open - dur) \div step + 1

\* C16: the generator returns exactly the windows [open + k*step,
\* open + k*step + duration) with open + k*step + duration <= close, for
\* k = 0, 1, ..., in increasing order of start; none ends after close, and
\* none is returned when the duration exceeds close - open.
GeneratedWindowsExact ==
    GenReturned =>
        LET open == gen.date * MinutesPerDay + gen.hours[1]
            close == gen.date * MinutesPerDay + gen.hours[2]
            dur == services[gen.service_id].duration_minutes
            n == ExpectedCount(open, close, dur, gen.step)
        IN  /\ Len(gen.slots) = n
            /\ \A k \in 1..n :
                  /\ gen.slots[k].start_time = open + (k - 1) * gen.step
                  /\ gen.slots[k].end_time = gen.slots[k].start_time + dur
                  /\ gen.slots[k].end_time <= close
            /\ \A k \in 1..(n - 1) :
                  gen.slots[k].start_time < gen.slots[k + 1].start_time
            /\ (dur > close - open) => gen.slots = << >>

\* A call has returned several slots, the last of them ending exactly at the
\* closing time.
GeneratedUpToClose ==
    /\ GenReturned
    /\ Len(gen.slots) > 1
    /\ gen.slots[Len(gen.slots)].end_time = gen.date * MinutesPerDay + gen.hours[2]

\* C17: every call of the slot generation returns.
GenerationTerminates == (gen.pc = "loop") ~> (gen.pc = "done")

\* The slot [s, e) on the studio's wall clock overlaps the window of an active
\* booking, each booking lasting the duration of its own service.
SlotOverlapsActive(s, e) ==
    \E id \in DOMAIN appts :
        /\ IsActive(appts[id])
        /\ s < EndOf(services, appts[id]) + StudioOffset
        /\ appts[id].appointment_date + StudioOffset < e

\* C18: in a returned slot listing a slot is marked unavailable exactly when
\* its window overlaps the window of a pending or confirmed booking of any
\* service.
ListingMarksOverlaps ==
    GenReturned =>
        \A k \in 1..Len(gen.slots) :
            gen.slots[k].is_available
                = ~SlotOverlapsActive(gen.slots[k].start_time, gen.slots[k].end_time)

\* C19: what is compared with the stored instants is a UTC instant: the flag
\* of every returned slot is the answer of the conflict query for the UTC
\* instant of the slot's start (its wall-clock time less the studio's offset).
SlotsComparedAsUTCInstants ==
    GenReturned =>
        \A k \in 1..Len(gen.slots) :
            gen.slots[k].is_available
                = is_slot_available(services, appts, gen.service_id,
                                    gen.slots[k].start_time - StudioOffset, 0)


(***************************************************************************)
(* Concurrent checkout requests.  Each worker runs create_payment_preference*)
(* in two steps: the lookups up to the query for an existing pending or    *)
(* approved payment, then (after the call to the gateway) the insert of    *)
(* the payment row and its commit.                                         *)
(***************************************************************************)
\* Payment rows plus requests in flight; never reached while appointment_id
\* is unique.
MaxPayRows == 4

PayInFlight == {w \in Workers : payreqs[w].pc = "checked"}

\* Two pending bookings to pay for.
PayStore ==
    <<Booked(1, StartInstant + 120, PENDING), Booked(2, StartInstant + 180, PENDING)>>

\* Lines 47-75: the booking is looked up and the existing payments queried.
PayCheck(w) ==
    \E id \in DOMAIN appts :
        /\ payreqs[w].pc \in {"idle", "done"}
        /\ Len(payments) + Cardinality(PayInFlight) < MaxPayRows
        /\ payreqs' = [payreqs EXCEPT ![w] =
              IF HasOpenPayment(payments, id)
              THEN [pc |-> "done", appointment_id |-> id, res |-> "already_paid",
                    had |-> TRUE]
              ELSE [pc |-> "checked", appointment_id |-> id, res |-> "", had |-> FALSE]]
        /\ vres' = NoAnswer
        /\ UNCHANGED <<now, services, appts, nextId, payments, avail, tzOffset, reqs,
                       started, gen, Admin>>

\* Lines 91-104: the insert and its commit.  had records whether the booking
\* had a pending or approved payment when the commit was attempted.
PayInsert(w) ==
    /\ payreqs[w].pc = "checked"
    /\ LET id == payreqs[w].appointment_id
           after == InsertPayment(payments, id)
       IN  /\ payments' = after
           /\ payreqs' = [payreqs EXCEPT ![w] =
                 [pc |-> "done", appointment_id |-> id,
                  res |-> IF after = payments THEN "integrity_error" ELSE "created",
                  had |-> HasOpenPayment(payments, id)]]
    /\ vres' = NoAnswer
    /\ UNCHANGED <<now, services, appts, nextId, avail, tzOffset, reqs, started, gen, Admin>>

InitPay ==
    /\ now = StartInstant
    /\ services = InitialServices
    /\ appts = PayStore
    /\ nextId = Len(PayStore) + 1
    /\ payments = << >>
    /\ avail = InitialAvailability
    /\ tzOffset = 0
    /\ reqs = [w \in Workers |-> NoRequest]
    /\ vres = NoAnswer
    /\ started = TRUE
    /\ gen = NoGen
    /\ payreqs = [w \in Workers |-> NoPayRequest]
    /\ cpn = NoCoupon
    /\ avreqs = [w \in Workers |-> NoAvRequest]
    /\ availSeq = 1
    /\ delreq = NoDelRequest
    /\ mail = NoMail

NextPay ==
    \/ \E w \in Workers : PayCheck(w)
    \/ \E w \in Workers : PayInsert(w)
    \/ MercadopagoWebhook
    \/ UpdatePaymentStatus

SpecPay == InitPay /\ [][NextPay]_vars

\* C20: a booking never has two pending payments, and a checkout request that
\* finds the booking with a pending or approved payment, at its check or at
\* its commit, creates no payment.
OnePendingPaymentPerBooking ==
    /\ \A id \in DOMAIN appts :
          Cardinality({p \in PaymentsOf(payments, id) : payments[p].status = P_PENDING}) <= 1
    /\ \A w \in Workers :
          (payreqs[w].pc = "done" /\ payreqs[w].had) => payreqs[w].res # "created"

\* Two checkout requests for the same booking have run concurrently: both
\* passed the check, one created the payment and the commit of the other
\* failed.
RacedCheckoutRejected ==
    \E w, o \in Workers :
        /\ w # o
        /\ payreqs[w].pc = "done" /\ payreqs[o].pc = "done"
        /\ payreqs[w].appointment_id = payreqs[o].appointment_id
        /\ payreqs[w].res = "created"
        /\ payreqs[o].res = "integrity_error"
        /\ payreqs[o].had


(***************************************************************************)
(* Coupons (models/coupon.py).  Amounts are whole pesos; a result of the   *)
(* discount functions is kept in hundredths of a peso (Scale), so that the *)
(* percentage amount * (discount_value / 100) is exact.                    *)
(***************************************************************************)
Scale == 100

PERCENTAGE == "percentage"
FIXED_AMOUNT == "fixed_amount"
DiscountType == {PERCENTAGE, FIXED_AMOUNT}

Min(a, b) == IF a <= b THEN a ELSE b
Max(a, b) == IF a >= b THEN a ELSE b

\* A row of table coupons.
Coupon(ty, value, minp, maxu, uses, from, until, active) ==
    [discount_type |-> ty, discount_value |-> value, min_purchase_amount |-> minp,
     max_uses |-> maxu, uses_count |-> uses, valid_from |-> from, valid_until |-> until,
     is_active |-> active]

\* The discount without the cap at the original amount.
calculate_discount_uncapped(c, original_amount) ==
    IF original_amount < c.min_purchase_amount THEN 0
    ELSE IF c.discount_type = PERCENTAGE
         THEN original_amount * c.discount_value
         ELSE c.discount_value * Scale

\* The discount without the minimum-purchase check.
calculate_discount_no_minimum(c, original_amount) ==
    LET discount == IF c.discount_type = PERCENTAGE
                    THEN original_amount * c.discount_value
                    ELSE c.discount_value * Scale
    IN  Min(discount, original_amount * Scale)

\* Coupon.calculate_discount, in hundredths.
calculate_discount(c, original_amount) ==
    IF original_amount < c.min_purchase_amount THEN 0
    ELSE LET discount == IF c.discount_type = PERCENTAGE
                         THEN original_amount * c.discount_value
                         ELSE c.discount_value * Scale
         IN  Min(discount, original_amount * Scale)

\* Coupon.apply_discount, in hundredths.
apply_discount(c, original_amount) ==
    LET discount == calculate_discount(c, original_amount)
    IN  Max(0, original_amount * Scale - discount)

\* Python truthiness of an optional integer column: NULL and 0 are false.
Truthy(x) == x # NULL /\ x[1] # 0

\* is_valid with the last day of the window excluded.
is_valid_until_exclusive(c, today) ==
    IF ~c.is_active THEN FALSE
    ELSE IF Truthy(c.max_uses) /\ c.uses_count >= c.max_uses[1] THEN FALSE
    ELSE IF c.valid_from # NULL /\ today < c.valid_from[1] THEN FALSE
    ELSE IF c.valid_until # NULL /\ today >= c.valid_until[1] THEN FALSE
    ELSE TRUE

\* Coupon.is_valid, with date.today() = today.
is_valid(c, today) ==
    IF ~c.is_active THEN FALSE
    ELSE IF Truthy(c.max_uses) /\ c.uses_count >= c.max_uses[1] THEN FALSE
    ELSE IF c.valid_from # NULL /\ today < c.valid_from[1] THEN FALSE
    ELSE IF c.valid_until # NULL /\ today > c.valid_until[1] THEN FALSE
    ELSE TRUE

\* Coupons the schemas accept (CouponCreate, CouponUpdate): a positive
\* discount value, over 100 for a percentage after an update; a minimum
\* purchase of 0 or more; no usage cap or a positive one.
CouponValues == {10, 50, 150, 5000}
MinPurchases == {0, 3000, 20000}
UsageCaps == {NULL, <<2>>}
UsageCounts == {1, 2, 3}
CouponDays == {2, 3, 4}
WindowBounds == {NULL, <<3>>}
Coupons ==
    {Coupon(ty, v, m, mu, u, f, t, a) :
        ty \in DiscountType, v \in CouponValues, m \in MinPurchases, mu \in UsageCaps,
        u \in UsageCounts, f \in WindowBounds, t \in WindowBounds, a \in BOOLEAN}
\* Purchase amounts (CouponValidate.amount, Service.price).
Amounts == {0, 1000, 3000, 20000}

CalculateDiscount ==
    \E amount \in Amounts :
        /\ cpn.call # "none"
        /\ cpn' = [cpn EXCEPT !.call = "calculate_discount", !.amount = amount,
                              !.res = calculate_discount(cpn.coupon, amount)]
        /\ UNCHANGED <<now, services, appts, nextId, payments, avail, tzOffset, reqs, vres,
                       started, gen, payreqs, avreqs, availSeq, delreq, mail>>

ApplyDiscount ==
    \E amount \in Amounts :
        /\ cpn.call # "none"
        /\ cpn' = [cpn EXCEPT !.call = "apply_discount", !.amount = amount,
                              !.res = apply_discount(cpn.coupon, amount)]
        /\ UNCHANGED <<now, services, appts, nextId, payments, avail, tzOffset, reqs, vres,
                       started, gen, payreqs, avreqs, availSeq, delreq, mail>>

IsValid ==
    /\ cpn.call # "none"
    /\ cpn' = [cpn EXCEPT !.call = "is_valid", !.amount = 0,
                          !.res = IF is_valid(cpn.coupon, cpn.today) THEN 1 ELSE 0]
    /\ UNCHANGED <<now, services, appts, nextId, payments, avail, tzOffset, reqs, vres,
                   started, gen, payreqs, avreqs, availSeq, delreq, mail>>

InitCoupon ==
    /\ now = StartInstant
    /\ services = InitialServices
    /\ appts = << >>
    /\ nextId = 1
    /\ payments = << >>
    /\ avail = InitialAvailability
    /\ tzOffset = 0
    /\ reqs = [w \in Workers |-> NoRequest]
    /\ vres = NoAnswer
    /\ started = TRUE
    /\ gen = NoGen
    /\ payreqs = [w \in Workers |-> NoPayRequest]
    /\ cpn \in {[NoCoupon EXCEPT !.coupon = c, !.today = d, !.call = "loaded"] : c \in Coupons, d \in CouponDays}
    /\ avreqs = [w \in Workers |-> NoAvRequest]
    /\ availSeq = 1
    /\ delreq = NoDelRequest
    /\ mail = NoMail

NextCoupon ==
    \/ CalculateDiscount
    \/ ApplyDiscount
    \/ IsValid

SpecCoupon == InitCoupon /\ [][NextCoupon]_vars

\* C22: for every coupon and every amount >= 0, calculate_discount returns d
\* with 0 <= d <= amount and apply_discount returns f with 0 <= f <= amount.
DiscountWithinAmount ==
    /\ (cpn.call = "calculate_discount")
            => (0 <= cpn.res /\ cpn.res <= cpn.amount * Scale)
    /\ (cpn.call = "apply_discount")
            => (0 <= cpn.res /\ cpn.res <= cpn.amount * Scale)

\* A fixed coupon of 5000 without minimum applied to 3000: the final price
\* is 0.
FixedCouponOverAmount ==
    /\ cpn.call = "apply_discount"
    /\ cpn.coupon.discount_type = FIXED_AMOUNT
    /\ cpn.coupon.discount_value = 5000
    /\ cpn.coupon.min_purchase_amount = 0
    /\ cpn.amount = 3000
    /\ cpn.res = 0

\* The discount of the specification, in hundredths.
ReferenceDiscount(c, amount) ==
    CASE amount < c.min_purchase_amount -> 0
      [] amount >= c.min_purchase_amount /\ c.discount_type = PERCENTAGE ->
            IF amount * c.discount_value <= amount * Scale
            THEN amount * c.discount_value ELSE amount * Scale
      [] amount >= c.min_purchase_amount /\ c.discount_type = FIXED_AMOUNT ->
            IF c.discount_value <= amount THEN c.discount_value * Scale ELSE amount * Scale

\* C23: calculate_discount equals the reference (0 below the minimum
\* purchase, else min(amount * value / 100, amount) for a percentage and
\* min(value, amount) for a fixed amount), and apply_discount(amount) =
\* amount - calculate_discount(amount).
DiscountEqualsReference ==
    /\ (cpn.call = "calculate_discount")
            => cpn.res = ReferenceDiscount(cpn.coupon, cpn.amount)
    /\ (cpn.call = "apply_discount")
            => cpn.res = cpn.amount * Scale - calculate_discount(cpn.coupon, cpn.amount)

\* A coupon with a minimum purchase of 3000 asked for an amount of 1000
\* yields no discount.
BelowMinimumNoDiscount ==
    /\ cpn.call = "calculate_discount"
    /\ cpn.coupon.min_purchase_amount = 3000
    /\ cpn.amount = 1000
    /\ cpn.res = 0

\* The validity gate of the specification.
ReferenceValid(c, today) ==
    /\ c.is_active
    /\ (c.max_uses # NULL => c.uses_count < c.max_uses[1])
    /\ (c.valid_from # NULL => c.valid_from[1] <= today)
    /\ (c.valid_until # NULL => today <= c.valid_until[1])

\* C30: is_valid is true iff the coupon is active, its usage count is below
\* max_uses when a cap is defined, and today lies in [valid_from,
\* valid_until], both bounds inclusive, a missing bound being unbounded; a
\* coupon whose usage count has reached its cap is never valid.
IsValidIffReference ==
    (cpn.call = "is_valid")
        => /\ (cpn.res = 1) <=> ReferenceValid(cpn.coupon, cpn.today)
           /\ (cpn.coupon.max_uses # NULL /\ cpn.coupon.uses_count >= cpn.coupon.max_uses[1])
                  => cpn.res = 0

\* A capped coupon below its cap is found valid on the last day of its window.
ValidOnLastDay ==
    /\ cpn.call = "is_valid"
    /\ cpn.res = 1
    /\ cpn.coupon.max_uses # NULL
    /\ cpn.coupon.valid_until = <<cpn.today>>

(***************************************************************************)
(* Administration of the availability table (routes/availability.py).      *)
(* Rows carry their primary key here.  A create request runs in two steps: *)
(* the validations and the existence query, then the insert and commit;    *)
(* the table has no unique constraint on day_of_week or specific_date.     *)
(***************************************************************************)
\* Rows created per run.
MaxCreatedRules == 2

StoredRule(r, id) ==
    [id |-> id, day_of_week |-> r.day_of_week, specific_date |-> r.specific_date,
     start_time |-> r.start_time, end_time |-> r.end_time, is_available |-> r.is_available]

\* The rows create_initial_data inserts, with keys 1..6.
InitialRules ==
    {StoredRule(WeeklyRule(d, BUSINESS_HOURS_START, BUSINESS_HOURS_END, TRUE), d) :
        d \in business_days_list}
FirstFreeRuleId == Cardinality(InitialRules) + 1

\* Request bodies: a weekly rule for Monday, one for Tuesday, an override
\* for the second Tuesday, a body naming both keys and a body naming none.
AvailabilityData ==
    {WeeklyRule(0, BUSINESS_HOURS_START, BUSINESS_HOURS_END, TRUE),
     WeeklyRule(1, BUSINESS_HOURS_START, BUSINESS_HOURS_END, TRUE),
     SpecificRule(8, BUSINESS_HOURS_START, BUSINESS_HOURS_END, FALSE),
     [WeeklyRule(1, BUSINESS_HOURS_START, BUSINESS_HOURS_END, TRUE)
        EXCEPT !.specific_date = <<8>>],
     [WeeklyRule(1, BUSINESS_HOURS_START, BUSINESS_HOURS_END, TRUE)
        EXCEPT !.day_of_week = NULL]}
CreateEndpoints == {"create_availability", "create_regular_schedule", "create_exception"}
\* Rows the update and delete requests address.
RuleIds == {1, FirstFreeRuleId, FirstFreeRuleId + 1}

\* AvailabilityBase.validate_day_or_date: one of the two keys, never both.
validate_day_or_date(data) ==
    /\ ~(data.day_of_week = NULL /\ data.specific_date = NULL)
    /\ ~(data.day_of_week # NULL /\ data.specific_date # NULL)

ExistsWeekly(av, d) == \E r \in av : r.day_of_week = d
ExistsSpecific(av, d) == \E r \in av : r.specific_date = d

\* What a create handler decides before it writes.
AvCreateOutcome(endpoint, av, data) ==
    IF ~validate_day_or_date(data) THEN "invalid"
    ELSE IF endpoint = "create_availability"
    THEN IF data.day_of_week # NULL /\ ExistsWeekly(av, data.day_of_week) THEN "exists"
         ELSE IF data.specific_date # NULL /\ ExistsSpecific(av, data.specific_date)
              THEN "exists"
         ELSE "ok"
    ELSE IF endpoint = "create_regular_schedule"
    THEN IF data.day_of_week = NULL THEN "bad_request"
         ELSE IF data.specific_date # NULL THEN "bad_request"
         ELSE IF ExistsWeekly(av, data.day_of_week) THEN "exists"
         ELSE "ok"
    ELSE IF data.specific_date = NULL THEN "bad_request"
         ELSE IF data.day_of_week # NULL THEN "bad_request"
         ELSE IF ExistsSpecific(av, data.specific_date) THEN "exists"
         ELSE "ok"

AvInFlight == {w \in Workers : avreqs[w].pc = "checked"}

\* A create handler up to and including its existence query.
AvCreateCheck(w) ==
    \E endpoint \in CreateEndpoints, data \in AvailabilityData :
        LET outcome == AvCreateOutcome(endpoint, avail, data)
        IN  /\ avreqs[w].pc \in {"idle", "done"}
            /\ availSeq + Cardinality(AvInFlight) < FirstFreeRuleId + MaxCreatedRules
            /\ avreqs' = [avreqs EXCEPT ![w] =
                  IF outcome = "ok"
                  THEN [pc |-> "checked", data |-> data, res |-> "",
                        rival |-> \E o \in AvInFlight : avreqs[o].data = data]
                  ELSE [NoAvRequest EXCEPT !.pc = "done", !.res = outcome]]
            /\ UNCHANGED <<now, services, appts, nextId, payments, avail, tzOffset, reqs, vres,
                           started, gen, payreqs, cpn, availSeq, delreq, mail>>

\* db.add + db.commit + db.refresh of a create handler.
AvCreateInsert(w) ==
    /\ avreqs[w].pc = "checked"
    /\ avail' = avail \cup {StoredRule(avreqs[w].data, availSeq)}
    /\ availSeq' = availSeq + 1
    /\ avreqs' = [avreqs EXCEPT ![w].pc = "done", ![w].res = "created"]
    /\ UNCHANGED <<now, services, appts, nextId, payments, tzOffset, reqs, vres,
                   started, gen, payreqs, cpn, delreq, mail>>

\* PUT /availability/{id} and PUT /availability/regular/{id}: the schema
\* AvailabilityUpdate carries start_time, end_time and is_available only.
UpdateAvailability ==
    \E r \in avail, regular_only \in BOOLEAN, flag \in BOOLEAN :
        /\ r.id \in RuleIds
        /\ regular_only => r.day_of_week # NULL
        /\ avail' = (avail \ {r}) \cup {[r EXCEPT !.is_available = flag]}
        /\ UNCHANGED <<now, services, appts, nextId, payments, tzOffset, reqs, vres,
                       started, gen, payreqs, cpn, avreqs, availSeq, delreq, mail>>

\* DELETE /availability/{id}, /availability/regular/{id} and
\* /availability/exceptions/{id}.
DeleteAvailability ==
    \E r \in avail, endpoint \in {"any", "regular", "exceptions"} :
        /\ r.id \in RuleIds
        /\ endpoint = "regular" => r.day_of_week # NULL
        /\ endpoint = "exceptions" => r.specific_date # NULL
        /\ avail' = avail \ {r}
        /\ UNCHANGED <<now, services, appts, nextId, payments, tzOffset, reqs, vres,
                       started, gen, payreqs, cpn, avreqs, availSeq, delreq, mail>>

InitAvail ==
    /\ now = StartInstant
    /\ services = InitialServices
    /\ appts = << >>
    /\ nextId = 1
    /\ payments = << >>
    /\ avail = InitialRules
    /\ tzOffset = 0
    /\ reqs = [w \in Workers |-> NoRequest]
    /\ vres = NoAnswer
    /\ started = TRUE
    /\ gen = NoGen
    /\ payreqs = [w \in Workers |-> NoPayRequest]
    /\ cpn = NoCoupon
    /\ avreqs = [w \in Workers |-> NoAvRequest]
    /\ availSeq = FirstFreeRuleId
    /\ delreq = NoDelRequest
    /\ mail = NoMail

NextAvail ==
    \/ \E w \in Workers : AvCreateCheck(w)
    \/ \E w \in Workers : AvCreateInsert(w)
    \/ UpdateAvailability
    \/ DeleteAvailability

SpecAvail == InitAvail /\ [][NextAvail]_vars

HasAppointments(db, svc) == \E i \in DOMAIN db : db[i].service_id = svc

\* db.delete + db.commit of a service row with no foreign key from
\* appointments.service_id.
DeleteServiceRowUnchecked(svcs, db, svc) ==
    [s \in DOMAIN svcs \ {svc} |-> svcs[s]]

\* db.delete + db.commit of a service row: appointments.service_id is NOT
\* NULL and references services.id, so the commit fails and the row stays
\* when a booking references it.
DeleteServiceRow(svcs, db, svc) ==
    IF HasAppointments(db, svc) THEN svcs
    ELSE [s \in DOMAIN svcs \ {svc} |-> svcs[s]]

\* Lines 181-200: the service lookup and the has_appointments query.
DeleteServiceCheck ==
    \E svc \in ServiceIds \cup {NoSuchService} :
        /\ delreq.pc \in {"idle", "done"}
        /\ delreq' = IF svc \notin DOMAIN services
                      THEN [pc |-> "done", service_id |-> svc, res |-> "not_found"]
                      ELSE IF HasAppointments(appts, svc)
                      THEN [pc |-> "done", service_id |-> svc, res |-> "has_appointments"]
                      ELSE [pc |-> "checked", service_id |-> svc, res |-> ""]
        /\ UNCHANGED <<now, services, appts, nextId, payments, avail, tzOffset, reqs, vres,
                       started, gen, payreqs, cpn, avreqs, availSeq, mail>>

\* Lines 202-203: the delete and its commit.
DeleteServiceCommit ==
    /\ delreq.pc = "checked"
    /\ services' = DeleteServiceRow(services, appts, delreq.service_id)
    /\ delreq' = [delreq EXCEPT !.pc = "done",
                                !.res = IF HasAppointments(appts, delreq.service_id)
                                        THEN "integrity_error" ELSE "deleted"]
    /\ UNCHANGED <<now, appts, nextId, payments, avail, tzOffset, reqs, vres,
                   started, gen, payreqs, cpn, avreqs, availSeq, mail>>

NextSvc ==
    \/ \E w \in Workers : CreateCheck(w)
    \/ \E w \in Workers : CreateCommit(w)
    \/ DeleteServiceCheck
    \/ DeleteServiceCommit
    \/ DeleteAppointment

SpecSvc == Init /\ [][NextSvc]_vars

\* C25: a service that has a booking is never hard-deleted (no step removes
\* a service that a booking references), and in every reachable state,
\* concurrent create-booking requests included, every booking's service
\* reference names an existing service.
ServiceWithBookingsKept ==
    /\ [](\A i \in DOMAIN appts : appts[i].service_id \in DOMAIN services)
    /\ [][\A svc \in DOMAIN services :
            HasAppointments(appts, svc) => svc \in DOMAIN services']_vars

\* A delete that passed its check while the service had no booking is
\* rejected at its commit, because a booking of the service was committed
\* in between; the service is still there.
DeleteLostToBooking ==
    /\ delreq.pc = "done"
    /\ delreq.res = "integrity_error"
    /\ delreq.service_id \in DOMAIN services
    /\ HasAppointments(appts, delreq.service_id)

(***************************************************************************)
(* Notifications.  cancel_appointment and the webhook's approved branch    *)
(* call the e-mail service inside try/except Exception; the provider may   *)
(* raise.                                                                  *)
(***************************************************************************)
\* A call of the e-mail service with no handler around it: the exception
\* leaves the request.
TrySendUncaught(raised) == IF raised THEN "raised" ELSE "sent"

\* try: email_service.send_...(); except Exception: print(...).
TrySend(raised) == IF raised THEN "logged" ELSE "sent"

Response(sent) == IF sent = "raised" THEN "error" ELSE "ok"

\* POST /appointments/{id}/cancel with its notification: the cancellation
\* is committed, then the e-mail is sent.
CancelAppointmentNotified ==
    \E id \in DOMAIN appts, raised \in BOOLEAN :
        /\ can_be_cancelled(appts[id])
        /\ appts' = [appts EXCEPT ![id] =
                        [@ EXCEPT !.status = CANCELLED,
                                  !.cancelled_at = <<now>>,
                                  !.cancellation_reason = UserReason]]
        /\ mail' = [op |-> "cancel", id |-> id, raised |-> raised,
                    response |-> Response(TrySend(raised)), seq |-> 1 - mail.seq]
        /\ UNCHANGED <<now, services, nextId, payments, avail, tzOffset, reqs, started, gen,
                       payreqs, cpn, avreqs, availSeq, delreq>>
        /\ vres' = NoAnswer

\* POST /payments/webhook reporting approved, with its notification: the
\* payment and the booking are written, the e-mail is sent, then everything
\* is committed; a request that dies before db.commit() stores nothing.
WebhookApprovedNotified ==
    \E id \in {payments[q].appointment_id : q \in DOMAIN payments}, raised \in BOOLEAN :
        \E p \in PaymentsOf(payments, id) :
            LET sent == TrySend(raised)
            IN  /\ payments' = IF sent = "raised" THEN payments
                               ELSE [payments EXCEPT ![p].status = P_APPROVED]
                /\ appts' = IF sent = "raised" THEN appts
                            ELSE ConfirmAppointment(appts, id)
                /\ mail' = [op |-> "webhook", id |-> id, raised |-> raised,
                            response |-> Response(sent), seq |-> 1 - mail.seq]
                /\ UNCHANGED <<now, services, nextId, avail, tzOffset, reqs, started, gen,
                               payreqs, cpn, avreqs, availSeq, delreq>>
                /\ vres' = NoAnswer

NextMail ==
    \/ CreateAppointment
    \/ CreatePaymentPreference
    \/ CancelAppointmentNotified
    \/ WebhookApprovedNotified

SpecMail == Init /\ [][NextMail]_vars

\* C26: a failure of notification sending never fails or undoes the
\* operation: when the e-mail provider raises during cancel_appointment the
\* booking is stored cancelled with cancelled_at and the reason, when it
\* raises during the approved-payment webhook the payment is stored approved
\* and the booking confirmed, and in both cases the request returns
\* successfully.
NotificationFailureHarmless ==
    [][(mail' # mail /\ mail'.raised)
        => /\ mail'.response = "ok"
           /\ (mail'.op = "cancel")
                => /\ appts'[mail'.id].status = CANCELLED
                   /\ appts'[mail'.id].cancelled_at = <<now>>
                   /\ appts'[mail'.id].cancellation_reason = UserReason
           /\ (mail'.op = "webhook")
                => /\ \E p \in PaymentsOf(payments', mail'.id) :
                          payments'[p].status = P_APPROVED
                   /\ appts'[mail'.id].status = CONFIRMED]_vars

\* The provider raised during the approved-payment webhook; the payment is
\* approved, the booking confirmed and the answer is a success.
WebhookSurvivedMailFailure ==
    /\ mail.op = "webhook"
    /\ mail.raised
    /\ mail.response = "ok"
    /\ \E p \in PaymentsOf(payments, mail.id) : payments[p].status = P_APPROVED
    /\ appts[mail.id].status = CONFIRMED

(***************************************************************************)
(* Approval of a payment.                                                  *)
(***************************************************************************)
\* C21: whenever a step turns a payment into approved (the webhook reporting
\* approved, or the admin status update), the same step leaves the booking
\* the payment is linked to in status confirmed.
ApprovalConfirmsBooking ==
    [][\A p \in DOMAIN payments :
          (p \in DOMAIN payments'
             /\ payments[p].status # P_APPROVED
             /\ payments'[p].status = P_APPROVED)
          => /\ payments[p].appointment_id \in DOMAIN appts'
             /\ appts'[payments[p].appointment_id].status = CONFIRMED]_vars

\* A payment is approved and its booking, one that had been cancelled
\* before, is confirmed.
ApprovedAndConfirmed ==
    \E p \in DOMAIN payments :
        /\ payments[p].status = P_APPROVED
        /\ payments[p].appointment_id \in DOMAIN appts
        /\ appts[payments[p].appointment_id].status = CONFIRMED
        /\ appts[payments[p].appointment_id].cancelled_at # NULL

(***************************************************************************)
(* Properties of the store and of the conflict checks.                     *)
(***************************************************************************)
\* Half-open windows [s1, e1) and [s2, e2) overlap.
Overlap(s1, e1, s2, e2) == s1 < e2 /\ s2 < e1

CandidateStarts == {StartInstant + 120, StartInstant + 150, StartInstant + 180}

ActiveRows(db) == [id \in {i \in DOMAIN db : IsActive(db[i])} |-> db[id]]

\* C1: no two distinct active (pending or confirmed) bookings occupy
\* overlapping windows [start, start + duration of the booking's service),
\* whatever their services.
NoOverlappingActiveBookings ==
    \A i, j \in DOMAIN appts :
        (i # j /\ IsActive(appts[i]) /\ IsActive(appts[j]))
            => ~Overlap(appts[i].appointment_date, EndOf(services, appts[i]),
                        appts[j].appointment_date, EndOf(services, appts[j]))

\* A candidate window of service svc starting at s overlaps the window of some
\* active booking, each booking ending after its own service's duration.
OverlapsActive(svc, s) ==
    \E id \in DOMAIN appts :
        /\ IsActive(appts[id])
        /\ Overlap(s, s + services[svc].duration_minutes,
                   appts[id].appointment_date, EndOf(services, appts[id]))

\* C3: both conflict checks report a conflict exactly when the candidate
\* window overlaps the window of an active booking (s < b+e and b < s+d).
ConflictIffOverlap ==
    \A svc \in DOMAIN services, s \in CandidateStarts :
        /\ is_slot_available(services, appts, svc, s, 0) = ~OverlapsActive(svc, s)
        /\ check_slot_availability(services, appts, svc, s, 0) = ~OverlapsActive(svc, s)

\* C4: completed and cancelled bookings never block a slot: both conflict
\* checks and the slot listing answer as they would on the pending and
\* confirmed rows alone, and answer "free" when the store holds no pending or
\* confirmed row.
TerminalNeverBlocks ==
    \A svc \in DOMAIN services, s \in CandidateStarts :
        /\ is_slot_available(services, appts, svc, s, 0)
              = is_slot_available(services, ActiveRows(appts), svc, s, 0)
        /\ check_slot_availability(services, appts, svc, s, 0)
              = check_slot_availability(services, ActiveRows(appts), svc, s, 0)
        /\ SlotBlocked(services, appts, svc, (s + StudioOffset) \div MinutesPerDay,
                        s + StudioOffset)
              = SlotBlocked(services, ActiveRows(appts), svc,
                            (s + StudioOffset) \div MinutesPerDay, s + StudioOffset)
        /\ (DOMAIN ActiveRows(appts) = {}) =>
              /\ is_slot_available(services, appts, svc, s, 0)
              /\ check_slot_availability(services, appts, svc, s, 0)
              /\ ~SlotBlocked(services, appts, svc,
                              (s + StudioOffset) \div MinutesPerDay, s + StudioOffset)

\* A slot of a cancelled or completed booking has been booked again: a later
\* pending booking of the same service sits in the same window.
TerminalSlotRebooked ==
    \E i, j \in DOMAIN appts :
        /\ i < j
        /\ appts[i].status \in {COMPLETED, CANCELLED}
        /\ appts[j].status = PENDING
        /\ appts[i].service_id = appts[j].service_id
        /\ appts[i].appointment_date = appts[j].appointment_date

\* C5: a booking that is completed or cancelled keeps that status in every
\* step of the system.
TerminalStatusIsFinal ==
    [][\A id \in DOMAIN appts \cap DOMAIN appts' :
          appts[id].status \in {COMPLETED, CANCELLED}
              => appts'[id].status = appts[id].status]_vars

\* C6: one run of the sweep at now cancels every pending booking whose instant
\* is strictly before now (automatic reason, cancelled_at = now), completes
\* every confirmed booking whose instant is strictly before now, and leaves a
\* booking whose instant equals now as it is.
SweepTransitions ==
    LET swept == update_appointments_status(appts, now) IN
    /\ DOMAIN swept = DOMAIN appts
    /\ \A id \in DOMAIN appts :
        /\ (appts[id].status = PENDING /\ appts[id].appointment_date < now) =>
              /\ swept[id].status = CANCELLED
              /\ swept[id].cancelled_at = <<now>>
              /\ swept[id].cancellation_reason = AutoReason
        /\ (appts[id].status = CONFIRMED /\ appts[id].appointment_date < now) =>
              swept[id].status = COMPLETED
        /\ appts[id].appointment_date = now => swept[id] = appts[id]

\* The sweep has run at the current instant and cancelled a booking, while
\* another booking whose instant equals now is still pending or confirmed.
SweptWithBoundaryBooking ==
    \E i, j \in DOMAIN appts :
        /\ appts[i].status = CANCELLED
        /\ appts[i].cancellation_reason = AutoReason
        /\ appts[i].cancelled_at = <<now>>
        /\ appts[j].appointment_date = now
        /\ IsActive(appts[j])

\* C7: a second run of the sweep at the same now changes no booking.
SweepIdempotent ==
    LET once == update_appointments_status(appts, now) IN
    update_appointments_status(once, now) = once

\* Two bookings were due at the same run: one was cancelled by the sweep at
\* the current instant, the other completed.
SweptBoth ==
    \E i, j \in DOMAIN appts :
        /\ appts[i].status = CANCELLED
        /\ appts[i].cancellation_reason = AutoReason
        /\ appts[i].cancelled_at = <<now>>
        /\ appts[j].status = COMPLETED
        /\ appts[j].appointment_date < now

(***************************************************************************)
(* Rescheduling.                                                           *)
(***************************************************************************)
\* The window booking i would occupy from start overlaps the window of an
\* active booking other than i.
OverlapsOther(i, start) ==
    \E j \in DOMAIN appts \ {i} :
        /\ IsActive(appts[j])
        /\ Overlap(start, start + services[appts[i].service_id].duration_minutes,
                   appts[j].appointment_date, EndOf(services, appts[j]))

\* C27: a reschedule through update_appointment ignores the booking being
\* moved and nothing else: a move to a window that overlaps no other active
\* booking (its own current window at most) succeeds, a move to a window
\* that overlaps another active booking is rejected and leaves the booking's
\* time unchanged.
RescheduleIgnoresOnlySelf ==
    \A i \in DOMAIN appts, dt \in RescheduleDates :
        LET nd == NormalizeToUTC(dt)
            moved == UpdateAppointmentRow(services, appts, now, i, <<dt>>, "", FALSE)
        IN  (IsActive(appts[i]) /\ nd >= now)
                => /\ OverlapsOther(i, nd)
                        => moved.appointment_date = appts[i].appointment_date
                   /\ ~OverlapsOther(i, nd) => moved.appointment_date = nd

(***************************************************************************)
(* The slot listing against the conflict check of create_appointment.      *)
(***************************************************************************)
\* C28: the slot listing and the create-booking conflict check agree on
\* every slot: a slot returned by get_available_slots_for_date is marked
\* available iff check_slot_availability accepts the slot's start instant
\* (its wall-clock time less the studio's offset) for the same service.
ListingAgreesWithCreateCheck ==
    (GenReturned /\ gen.impl = "route")
        => \A k \in 1..Len(gen.slots) :
              gen.slots[k].is_available
                = check_slot_availability(services, appts, gen.service_id,
                                          gen.slots[k].start_time - StudioOffset, 0)

(***************************************************************************)
(* What the sweep leaves alone.  The stores hold two rows of every status, *)
(* before, at and after the two clock points, with a customer, notes and a *)
(* reminder flag of their own.                                             *)
(***************************************************************************)
FrameDates == {StartInstant - 20, StartInstant, StartInstant + 150, StartInstant + 180}
FrameFill == {[user_id |-> 1, notes |-> NULL, reminder_sent |-> FALSE],
              [user_id |-> 2, notes |-> <<"first visit">>, reminder_sent |-> TRUE]}

FrameRow(svc, date, st, fill) ==
    [Appointment(svc, date) EXCEPT
        !.status = st,
        !.cancelled_at = IF st = CANCELLED THEN <<StartInstant - 30>> ELSE NULL,
        !.cancellation_reason = IF st = CANCELLED THEN UserReason ELSE NoReason,
        !.user_id = fill.user_id, !.notes = fill.notes,
        !.reminder_sent = fill.reminder_sent]

FrameRows ==
    {FrameRow(1, d, st, f) : d \in FrameDates, st \in AppointmentStatus, f \in FrameFill}
FrameStores == {<<r1, r2>> : r1 \in FrameRows, r2 \in FrameRows}

InitFrame ==
    /\ now = StartInstant
    /\ services = InitialServices
    /\ appts \in FrameStores
    /\ nextId = 3
    /\ payments = << >>
    /\ avail = InitialAvailability
    /\ tzOffset = 0
    /\ reqs = [w \in Workers |-> NoRequest]
    /\ vres = NoAnswer
    /\ started = TRUE
    /\ gen = NoGen
    /\ payreqs = [w \in Workers |-> NoPayRequest]
    /\ cpn = NoCoupon
    /\ avreqs = [w \in Workers |-> NoAvRequest]
    /\ availSeq = 1
    /\ delreq = NoDelRequest
    /\ mail = NoMail

NextFrame ==
    \/ Sweep
    \/ Tick

SpecFrame == InitFrame /\ [][NextFrame]_vars

\* The columns of a booking the sweep has no business with.
SameBooking(a, b) ==
    /\ a.appointment_date = b.appointment_date
    /\ a.service_id = b.service_id
    /\ a.user_id = b.user_id
    /\ a.notes = b.notes
    /\ a.reminder_sent = b.reminder_sent

====
